---- MODULE Spec2Model ----
(***************************************************************************)
(* PipeCenter backend: the collection store (lib/storage.py), the record   *)
(* validators (lib/models.py) and the request handlers that drive them     *)
(* (app.py, api/...).                                                      *)
(*                                                                         *)
(* Time is counted in days: `now` stands for int(time.time() * 1000) and   *)
(* ThirtyDays for 30 * 24 * 60 * 60 * 1000, both divided by one day of     *)
(* milliseconds, so every comparison of the code keeps its direction and   *)
(* its boundary.  Two requests handled without a tick between them see     *)
(* the same clock value.                                                   *)
(*                                                                         *)
(* A JSON object is a record whose DOMAIN is the set of keys it carries,   *)
(* so `'id' not in data` is "id" \notin DOMAIN data.                       *)
(***************************************************************************)
EXTENDS Integers, Sequences, FiniteSets, TLC

VARIABLES
    env,        \* the process environment: AUTH_USERNAME, AUTH_PASSWORD
    backend,    \* whether the blob backend answers the requests sent to it
    service,    \* which storage_service the process runs with
    blob,       \* the blob store: filename -> content
    now,        \* the clock
    req,        \* per worker: the request it is handling and its last response
    adapter     \* the last call made on the storage adapter itself, and its outcome

vars == <<env, backend, service, blob, now, req, adapter>>

----------------------------------------------------------------------------
(* Bounds *)

StartNow == 40
MaxNow == 42
MaxLen == 3

Workers == {"w1", "w2"}

----------------------------------------------------------------------------
(* Program constants *)

ThirtyDays == 30

CFG == "configurations.json"
QUO == "quotations.json"
Keys == {CFG, QUO}

\* os.environ.get(name) of a variable that is not set.
None == "None"

\* The environments the process is started in: the credentials unset, or set;
\* the blob token unset, set to the empty string, or set.
Envs ==
    { [AUTH_USERNAME |-> c[1], AUTH_PASSWORD |-> c[2], BLOB_READ_WRITE_TOKEN |-> t] :
         c \in {<<None, None>>, <<"arumugam", "s3cret">>}, t \in {None, "", "vercel_blob_rw"} }

\* bool(value) of an environment value: None and '' are false.
Truthy(value) == value \notin {None, ""}

\* BlobStorageService.__init__: `if not self.token: self.use_memory = True`
InitUseMemory(e) == ~Truthy(e.BLOB_READ_WRITE_TOKEN)

----------------------------------------------------------------------------
(* Sequence helpers *)

MapSeq(s, F(_)) == [i \in 1..Len(s) |-> F(s[i])]

\* The list comprehension  [x for x in s if Keep(x)]
FilterSeq(s, Keep(_)) == SelectSeq(s, Keep)

----------------------------------------------------------------------------
(* JSON values and pydantic models (lib/models.py) *)

\* An array element that is not a JSON object (a number, a string, null).
NonObject == [nonobject |-> TRUE]
IsObject(e) == "nonobject" \notin DOMAIN e

\* str.lower() on the names the model uses.
Lower(s) ==
    CASE s = "Std" -> "std"
      [] s = "STD" -> "std"
      [] s = "Pro" -> "pro"
      [] OTHER -> s

ConfigFields == {"id", "name", "firstDiscount", "secondDiscount", "margin", "createdAt"}

validate_percentages(v) == ~(v < 0 \/ v > 100)

\* Configuration(**e) does not raise.
ValidConfiguration(e) ==
    /\ IsObject(e)
    /\ ConfigFields \subseteq DOMAIN e
    /\ validate_percentages(e.firstDiscount)
    /\ validate_percentages(e.secondDiscount)
    /\ validate_percentages(e.margin)

\* Configuration(**e).dict(): the declared fields only (extra keys are ignored).
ConfigurationDict(e) == [f \in ConfigFields |-> e[f]]

ItemFields == {"sno", "itemName", "rate", "quantity", "unit", "amount"}

\* A validator of rate, quantity and amount that accepts every number.
validate_any_number(v) == TRUE

validate_positive_numbers(v) == ~(v < 0)

ValidQuotationItem(it) ==
    /\ IsObject(it)
    /\ ItemFields \subseteq DOMAIN it
    /\ validate_positive_numbers(it.rate)
    /\ validate_positive_numbers(it.quantity)
    /\ validate_positive_numbers(it.amount)

QuotationItemDict(it) == [f \in ItemFields |-> it[f]]

QuotationRequired == {"id", "buyerName", "buyerAddress", "items", "subtotal", "gst",
                      "transportCharges", "total", "createdAt"}

validate_positive_amounts(v) == ~(v < 0)

\* datetime.now().strftime("%d/%m/%Y") at clock t
Today(t) == ToString(t)

\* A validator that stamps the current date on every record.
set_date_always_today(e, t) == Today(t)

\* The validator of `date`: the current date when the field is absent.
set_date(e, t) == IF "date" \in DOMAIN e THEN e.date ELSE Today(t)

\* Quotation(**e) does not raise.
ValidQuotation(e) ==
    /\ IsObject(e)
    /\ QuotationRequired \subseteq DOMAIN e
    /\ \A i \in 1..Len(e.items) : ValidQuotationItem(e.items[i])
    /\ validate_positive_amounts(e.subtotal)
    /\ validate_positive_amounts(e.gst)
    /\ validate_positive_amounts(e.transportCharges)
    /\ validate_positive_amounts(e.total)

\* Quotation(**e).dict() built at clock t.
QuotationDict(e, t) ==
    [f \in QuotationRequired \cup {"date"} |->
        IF f = "date" THEN set_date(e, t)
        ELSE IF f = "items" THEN MapSeq(e.items, QuotationItemDict)
        ELSE e[f]]

----------------------------------------------------------------------------
(* In-process list elements: a pydantic model, or the handler's raw dict *)

Model(v) == [kind |-> "model", v |-> v]
Dict(v)  == [kind |-> "dict", v |-> v]

\* x.dict() succeeds only on a model: a dict has no attribute 'dict'.
HasDictMethod(x) == x.kind = "model"

\* config.id if hasattr(config, 'id') else config.get('id')
IdOf(x) == IF "id" \in DOMAIN x.v THEN x.v.id ELSE "None"

----------------------------------------------------------------------------
(* Blob contents *)

Absent == [kind |-> "absent", elems |-> <<>>]
NotArray == [kind |-> "notarray", elems |-> <<>>]

\* A blob of length 0, and one whose text json.loads rejects.
Empty == [kind |-> "empty", elems |-> <<>>]
Unparseable == [kind |-> "unparseable", elems |-> <<>>]

BlobKinds == {"absent", "empty", "unparseable", "notarray", "array"}
Array(s) == [kind |-> "array", elems |-> s]

----------------------------------------------------------------------------
(* BlobStorageService (lib/storage.py), backend reachable *)

\* A write that adds to the content of the blob.
put_blob_append(b, filename, data) ==
    [ok |-> TRUE, put |-> TRUE,
     blob |-> [b EXCEPT ![filename] = [kind |-> "array", elems |-> @.elems \o data.elems]]]

\* The result of a call and the store it leaves: ok is the returned bool, put tells
\* whether the store was written.
put_blob(b, filename, data) ==
    [ok |-> TRUE, put |-> TRUE, blob |-> [b EXCEPT ![filename] = data]]

get_blob(b, filename) == b[filename]

\* What surfaces in place of a list when an exception leaves a load.
Raised == <<[kind |-> "raised", v |-> NonObject]>>

\* A get_configurations that skips nothing: it gives up at the first element
\* Configuration(**e) rejects and returns what it has.
get_configurations_stop_at_invalid(b) ==
    LET data == get_blob(b, CFG)
        bad == {i \in 1..Len(data.elems) : ~ValidConfiguration(data.elems[i])}
        upto == IF bad = {} THEN Len(data.elems)
                ELSE (CHOOSE i \in bad : \A j \in bad : i <= j) - 1
    IN IF data.kind # "array" THEN <<>>
       ELSE MapSeq(SubSeq(data.elems, 1, upto), LAMBDA e : Model(ConfigurationDict(e)))

\* A get_configurations that returns every element carrying the fields, whatever
\* its percentages.
get_configurations_keep_invalid(b) ==
    LET data == get_blob(b, CFG)
    IN IF data.kind # "array" THEN <<>>
       ELSE MapSeq(FilterSeq(data.elems,
                             LAMBDA e : IsObject(e) /\ ConfigFields \subseteq DOMAIN e),
                   LAMBDA e : Model(ConfigurationDict(e)))

\* The list get_configurations returns. It never writes.
get_configurations(b) ==
    LET data == get_blob(b, CFG)
    IN IF data.kind # "array" THEN <<>>
       ELSE MapSeq(FilterSeq(data.elems, ValidConfiguration),
                   LAMBDA e : Model(ConfigurationDict(e)))

\* A save_configurations that writes every element, a model or a dict, as it is.
save_configurations_raw(b, configurations) ==
    put_blob(b, CFG, Array(MapSeq(configurations, LAMBDA x : x.v)))

\* config.dict() raises on an element that is no model; the except returns False
\* before put_blob is reached.
save_configurations(b, configurations) ==
    IF \A i \in 1..Len(configurations) : HasDictMethod(configurations[i])
    THEN put_blob(b, CFG, Array(MapSeq(configurations, LAMBDA x : x.v)))
    ELSE [ok |-> FALSE, put |-> FALSE, blob |-> b]

\* A cutoff two days further back.
thirty_days_ago_late(t) == t - (ThirtyDays + 2)

thirty_days_ago(t) == t - ThirtyDays

\* quotation_data.get('createdAt', 0)
CreatedAtOf(e) == IF "createdAt" \in DOMAIN e THEN e.createdAt ELSE 0

\* The element is appended to valid_quotations: it is an object (else .get raises),
\* it is young enough, and Quotation(**e) does not raise.
RetainedQuotation(e, t) ==
    /\ IsObject(e)
    /\ CreatedAtOf(e) > thirty_days_ago(t)
    /\ ValidQuotation(e)

\* get_quotations setting cleanup_needed only where Quotation(**e) raised, not
\* for an element dropped for its age.
get_quotations_no_age_cleanup(b, t) ==
    LET data == get_blob(b, QUO)
    IN IF data.kind # "array"
       THEN [valid_quotations |-> <<>>, cleanup_needed |-> FALSE]
       ELSE [valid_quotations |->
                MapSeq(FilterSeq(data.elems, LAMBDA e : RetainedQuotation(e, t)),
                       LAMBDA e : Model(QuotationDict(e, t))),
             cleanup_needed |->
                \E i \in 1..Len(data.elems) :
                    LET e == data.elems[i]
                    IN ~IsObject(e) \/ (CreatedAtOf(e) > thirty_days_ago(t) /\ ~ValidQuotation(e))]

\* A get_quotations with json.loads and the list test outside its try: content
\* that is no list leaves it as an exception.
get_quotations_unguarded(b, t) ==
    LET data == get_blob(b, QUO)
    IN IF data.kind \in {"absent", "empty"}
       THEN [valid_quotations |-> <<>>, cleanup_needed |-> FALSE]
       ELSE IF data.kind # "array"
       THEN [valid_quotations |-> Raised, cleanup_needed |-> FALSE]
       ELSE [valid_quotations |->
                MapSeq(FilterSeq(data.elems, LAMBDA e : RetainedQuotation(e, t)),
                       LAMBDA e : Model(QuotationDict(e, t))),
             cleanup_needed |->
                \E i \in 1..Len(data.elems) : ~RetainedQuotation(data.elems[i], t)]

\* get_quotations up to the cleanup decision: the list it will return and
\* whether it re-saves first.
get_quotations(b, t) ==
    LET data == get_blob(b, QUO)
    IN IF data.kind # "array"
       THEN [valid_quotations |-> <<>>, cleanup_needed |-> FALSE]
       ELSE [valid_quotations |->
                MapSeq(FilterSeq(data.elems, LAMBDA e : RetainedQuotation(e, t)),
                       LAMBDA e : Model(QuotationDict(e, t))),
             cleanup_needed |->
                \E i \in 1..Len(data.elems) : ~RetainedQuotation(data.elems[i], t)]

save_quotations(b, quotations) ==
    IF \A i \in 1..Len(quotations) : HasDictMethod(quotations[i])
    THEN put_blob(b, QUO, Array(MapSeq(quotations, LAMBDA x : x.v)))
    ELSE [ok |-> FALSE, put |-> FALSE, blob |-> b]

\* get_quotations run to its return with no other request in between:
\* the returned list and the blob store it leaves.
LoadAllQuotations(b, t) ==
    LET g == get_quotations(b, t)
    IN [result |-> g.valid_quotations,
        wrote |-> g.cleanup_needed,
        blob |-> IF g.cleanup_needed THEN save_quotations(b, g.valid_quotations).blob
                 ELSE b]

\* get_quotation_by_id's scan: the index of the first match, 0 when there is none.
FirstWithId(list, id) ==
    IF \E i \in 1..Len(list) : IdOf(list[i]) = id
    THEN CHOOSE i \in 1..Len(list) :
            /\ IdOf(list[i]) = id
            /\ \A j \in 1..(i - 1) : IdOf(list[j]) # id
    ELSE 0

----------------------------------------------------------------------------
(* The storage_service the handlers call: BlobStorageService, or app.py's      *)
(* DummyService when the imports failed                                        *)

svc_get_configurations(svc, b) ==
    IF svc = "dummy" THEN <<>> ELSE get_configurations(b)

svc_save_configurations(svc, b, configurations) ==
    IF svc = "dummy" THEN [ok |-> TRUE, put |-> FALSE, blob |-> b]
    ELSE save_configurations(b, configurations)

svc_get_quotations(svc, b, t) ==
    IF svc = "dummy" THEN [valid_quotations |-> <<>>, cleanup_needed |-> FALSE]
    ELSE get_quotations(b, t)

svc_save_quotations(svc, b, quotations) ==
    IF svc = "dummy" THEN [ok |-> TRUE, put |-> FALSE, blob |-> b]
    ELSE save_quotations(b, quotations)

\* storage_service.get_quotations() run to its return with no other request in between.
SvcLoadAllQuotations(svc, b, t) ==
    IF svc = "dummy" THEN [result |-> <<>>, wrote |-> FALSE, blob |-> b]
    ELSE LoadAllQuotations(b, t)

----------------------------------------------------------------------------
(* The remote backend: requests.get / requests.put may raise or be refused *)

\* get_blob's request raises or is answered with an error status.
ReadFails == service = "remote" /\ backend = "down"

\* put_blob's request raises or is answered with a status other than 200/201.
WriteFails == service = "remote" /\ backend \in {"down", "rejects"}

\* The store as a load finds it: get_blob returns None for every file when the
\* read fails, as it does for a file that is not there.
Seen(b) == IF ReadFails THEN [k \in Keys |-> Absent] ELSE b

\* The outcome of a save: put_blob returns False and nothing is written when the
\* write fails.
Stored(s) == IF WriteFails THEN [ok |-> FALSE, put |-> FALSE, blob |-> blob] ELSE s

----------------------------------------------------------------------------
(* Request payloads and stored documents the model draws from *)

Cfg(id, name, f, s, m, ca) ==
    [id |-> id, name |-> name, firstDiscount |-> f, secondDiscount |-> s,
     margin |-> m, createdAt |-> ca]

CfgBody(name, f, s, m) ==
    [name |-> name, firstDiscount |-> f, secondDiscount |-> s, margin |-> m]

EmptyBody == [x \in {} |-> 0]

\* A request body that is not valid JSON.
Malformed == [malformed |-> TRUE]

\* app.py's _get_request_body: {} when the body is empty or does not parse.
get_request_body(body) == IF body = Malformed THEN EmptyBody ELSE body

ConfigBodies ==
    { CfgBody("Std", 10, 5, 15),
      CfgBody("STD", 0, 100, 0),
      CfgBody("Pro", 10, 5, 15),
      CfgBody("Pro", 101, 5, 15),
      CfgBody("Std", 10, 0 - 1, 15),
      Cfg("7", "Pro", 10, 5, 15, StartNow - 3),
      [name |-> "Pro", firstDiscount |-> 10, secondDiscount |-> 5],
      EmptyBody,
      Malformed }

ConfigIds == {"1", "2", "zz"}

Credentials(username, password) == [username |-> username, password |-> password]

\* Bodies of login requests.
LoginBodies ==
    { Credentials("arumugam", "s3cret"),
      Credentials("arumugam", "pappu"),
      Credentials("arumugam", "wrongpass"),
      Credentials("wronguser", "wrongpass"),
      Credentials("wronguser", "s3cret"),
      Credentials("", "s3cret"),
      [username |-> "arumugam"],
      Malformed }

Item(r, q, a) ==
    [sno |-> 1, itemName |-> "pipe", rate |-> r, quantity |-> q, unit |-> "m", amount |-> a]

QuoBody(items, sub, gst, tr, tot) ==
    [buyerName |-> "B", buyerAddress |-> "A", items |-> items, subtotal |-> sub,
     gst |-> gst, transportCharges |-> tr, total |-> tot]

Quo(id, ca, items, tot) ==
    [id |-> id, createdAt |-> ca] @@ QuoBody(items, 1, 0, 0, tot)

Dated(q) == q @@ [date |-> "01/01/2025"]

QuotationBodies ==
    { QuoBody(<<Item(2, 3, 6)>>, 6, 1, 0, 7),
      QuoBody(<<Item(0 - 2, 3, 6)>>, 6, 1, 0, 7),
      QuoBody(<<Item(2, 0 - 3, 6)>>, 6, 1, 0, 7),
      QuoBody(<<Item(2, 3, 6), Item(2, 3, 0 - 6)>>, 6, 1, 0, 7),
      QuoBody(<<Item(2, 3, 6)>>, 6, 1, 0, 0 - 7),
      Dated(Quo("q9", StartNow - 31, <<Item(2, 3, 6)>>, 7)),
      EmptyBody,
      Malformed }

\* Replacement payloads of an update.
UpdateBodies ==
    { Dated(Quo("q2", StartNow - 2, <<Item(2, 3, 6)>>, 9)),
      Dated(Quo("q1", StartNow - 2, <<Item(0 - 2, 3, 6)>>, 9)),
      EmptyBody }

QuotationIds == {"q1", "q2", "zz"}

InitConfigBlobs ==
    { Absent,
      NotArray,
      Empty,
      Array(<<>>),
      Array(<<Cfg("1", "Std", 10, 5, 15, StartNow - 5), Cfg("2", "Pro", 0, 100, 0, StartNow - 4)>>),
      Array(<<Cfg("2", "Pro", 101, 5, 15, StartNow - 5), Cfg("1", "STD", 10, 5, 15, StartNow - 4)>>),
      Array(<<Cfg("1", "Std", 10, 5, 15, StartNow - 5) @@ [note |-> "x"], NonObject>>) }

InitQuotationBlobs ==
    { Absent,
      NotArray,
      Unparseable,
      Array(<<Dated(Quo("q1", StartNow - 29, <<Item(2, 3, 6)>>, 7)),
              Dated(Quo("q2", StartNow - 31, <<Item(2, 3, 6)>>, 7))>>),
      Array(<<Dated(Quo("q1", StartNow - 30, <<Item(2, 3, 6)>>, 7)),
              Dated(Quo("q2", StartNow, <<>>, 0))>>),
      Array(<<Quo("q1", StartNow - 28, <<Item(2, 3, 6)>>, 7),
              Dated(Quo("q2", StartNow - 1, <<Item(2, 3, 6)>>, 7))>>),
      Array(<<Dated(Quo("q1", StartNow, <<Item(0 - 2, 3, 6)>>, 7)),
              Dated(Quo("q2", StartNow - 29, <<Item(2, 3, 6)>>, 7)),
              NonObject>>) }

----------------------------------------------------------------------------
(* AuthService (lib/auth.py).  Token times are counted in hours. *)

\* self.secret_key
SecretKey == "default-secret-key"

\* self.token_expire_hours
token_expire_hours == 24

HoursPerDay == 24

\* datetime.utcnow() at clock value t
utcnow(t) == t * HoursPerDay

\* A JWT: the payload fields the code uses and the key of its signature.
Jwt(username, exp, key) == [username |-> username, exp |-> exp, key |-> key]

\* A string that jwt.decode cannot decode.
NotAJwt(text) == [text |-> text]

\* No token: get_authorization_header returning None.
NoToken == [none |-> TRUE]

validate_user(e, username, password) ==
    username = e.AUTH_USERNAME /\ password = e.AUTH_PASSWORD

generate_token(username, t) ==
    Jwt(username, utcnow(t) + token_expire_hours, SecretKey)

\* A verify_token returning the embedded username of every token jwt.decode accepts.
verify_token_any_user(e, token, utc) ==
    IF "exp" \notin DOMAIN token THEN None
    ELSE IF token.key # SecretKey THEN None
    ELSE IF token.exp <= utc THEN None
    ELSE token.username

\* jwt.decode raises InvalidTokenError on a string that is no JWT or on a wrong
\* signature, and ExpiredSignatureError once exp is reached; a decoded payload
\* yields its username only when that is the configured one.  utc is the time of
\* the call, in hours.
verify_token(e, token, utc) ==
    IF "exp" \notin DOMAIN token THEN None
    ELSE IF token.key # SecretKey THEN None
    ELSE IF token.exp <= utc THEN None
    ELSE IF token.username = e.AUTH_USERNAME THEN token.username
    ELSE None

\* The Authorization header of a request.
NoHeader == [scheme |-> "none", token |-> NoToken]
Header(scheme, token) == [scheme |-> scheme, token |-> token]

get_authorization_header(h) == IF h.scheme = "Bearer" THEN h.token ELSE NoToken

authenticate_request(e, h, t) ==
    LET token == get_authorization_header(h)
    IN IF token # NoToken THEN verify_token(e, token, utcnow(t)) ELSE None

\* The Authorization headers requests arrive with.  The exp of a token is written
\* here as hours from the arrival of the request; Arriving makes it a time.
GoodToken == Jwt("arumugam", 1, SecretKey)

Headers ==
    { NoHeader,
      Header("Basic", GoodToken),
      Header("Bearer", NotAJwt("dummy-jwt-token-for-testing")),
      Header("Bearer", GoodToken),
      Header("Bearer", Jwt("arumugam", 0 - 1, SecretKey)),
      Header("Bearer", Jwt("mallory", 1, SecretKey)),
      Header("Bearer", Jwt("arumugam", 1, "another-key")),
      Header("Bearer", Jwt(None, 1, SecretKey)) }

\* Headers of the requests sent to app.py, which does not read them.
AppHeaders == {NoHeader, Header("Bearer", GoodToken)}

\* Header h of a request that arrives at clock value t.
Arriving(h, t) ==
    IF "exp" \in DOMAIN h.token THEN [h EXCEPT !.token.exp = utcnow(t) + @] ELSE h

----------------------------------------------------------------------------
(* Requests *)

Idle ==
    [pc |-> "idle", via |-> "none", op |-> "none", data |-> EmptyBody, list |-> <<>>,
     status |-> 0, note |-> "", saved |-> FALSE, wrote |-> FALSE,
     hdr |-> NoHeader, user |-> None, loaded |-> FALSE, orig |-> <<>>,
     token |-> NoToken, failed |-> FALSE, malformed |-> FALSE,
     named |-> {}, body |-> EmptyBody, has_blob_token |-> FALSE,
     read_failed |-> FALSE]

\* A request as the handler takes it up.  user is whom its Authorization header
\* authenticates: the api/ handlers compute it, app.py never does.
Request(via, op, data, h) ==
    [pc |-> "run", via |-> via, op |-> op, data |-> data, list |-> <<>>,
     status |-> 0, note |-> "", saved |-> FALSE, wrote |-> FALSE,
     hdr |-> Arriving(h, now), user |-> authenticate_request(env, Arriving(h, now), now),
     loaded |-> FALSE,
     orig |-> <<>>, token |-> NoToken, failed |-> FALSE, malformed |-> FALSE,
     named |-> {}, body |-> EmptyBody, has_blob_token |-> FALSE,
     read_failed |-> FALSE]

\* The handler read the body of the request: json.loads raised on it, or did not.
Parsed(r, body) == [r EXCEPT !.malformed = (body = Malformed), !.body = body]

\* The collection an operation works on.
KeyOfOp(op) ==
    IF op \in {"get_configurations", "create_configuration", "delete_configuration"}
    THEN CFG ELSE QUO

\* The handler called storage_service.get_configurations / get_quotations, which
\* returned list; read_failed tells that get_blob's request failed or that
\* json.loads raised on the content.
Loaded(r, list) ==
    [r EXCEPT !.loaded = TRUE, !.orig = list, !.failed = (@ \/ ReadFails),
              !.read_failed = ReadFails \/ (service # "dummy" /\ blob[KeyOfOp(r.op)].kind = "unparseable")]

\* _send_json_response / _send_error: the request is answered.
Respond(r, status, note) ==
    [r EXCEPT !.pc = "idle", !.list = <<>>, !.status = status, !.note = note]

\* if 'id' not in data: data['id'] = str(int(time.time() * 1000));
\* if 'createdAt' not in data: data['createdAt'] = int(time.time() * 1000)
AddIdCreatedAt(body, t) == body @@ [id |-> ToString(t), createdAt |-> t]

\* No call has been made on the adapter.  put is whether the store was written,
\* got what get_blob returned, raised whether an exception left the call; written
\* list is the list handed to save_*; written is, per file, the content of the put
\* that was made last with no delete after it, kept beside the store.
NoCall ==
    [op |-> "none", filename |-> CFG, ok |-> FALSE, put |-> FALSE, raised |-> FALSE,
     got |-> Absent, list |-> <<>>, written |-> [k \in Keys |-> Absent]]

TypeOK ==
    /\ env \in Envs
    /\ backend \in {"up", "down", "rejects"}
    /\ service \in {"memory", "remote", "dummy"}
    /\ DOMAIN blob = Keys
    /\ \A k \in Keys : blob[k].kind \in BlobKinds
    /\ now \in StartNow..MaxNow
    /\ \A p \in Workers : req[p].pc \in {"idle", "cleanup", "save"}
    /\ adapter.op \in {"none", "put_blob", "get_blob", "delete_blob", "save"}

Init ==
    /\ env \in Envs
    /\ backend = "up"
    /\ service \in {"memory", "remote", "dummy"}
    /\ blob \in [Keys -> InitConfigBlobs \cup InitQuotationBlobs]
    /\ blob[CFG] \in InitConfigBlobs
    /\ blob[QUO] \in InitQuotationBlobs
    /\ blob[CFG] = Absent \/ blob[QUO] = Absent
    /\ service # "remote" => \A k \in Keys : blob[k] = Absent
    /\ env.AUTH_USERNAME = None => service # "remote"
    /\ service = "memory" => InitUseMemory(env)
    /\ service = "remote" => ~InitUseMemory(env)
    /\ now = StartNow
    /\ req = [p \in Workers |-> Idle]
    /\ adapter = NoCall

----------------------------------------------------------------------------
(* app.py: configurations *)

RequiredConfigFields == {"name", "firstDiscount", "secondDiscount", "margin"}

\* required_fields, in the order the handler walks it
required_fields == <<"name", "firstDiscount", "secondDiscount", "margin">>

\* A check that reports 'name' whatever field is missing.
FirstMissingIsName(data) == "name"

\* for field in required_fields: if field not in data: the field the error names
FirstMissing(data) ==
    LET missing == {i \in 1..Len(required_fields) : required_fields[i] \notin DOMAIN data}
    IN required_fields[CHOOSE i \in missing : \A j \in missing : i <= j]

\* The fields a pydantic ValidationError reports as "field required".
FieldsRequired(data) == ConfigFields \ DOMAIN data

\* The duplicate check comparing the names as they are written.
NameTakenCaseSensitive(configurations, name) ==
    \E i \in 1..Len(configurations) : configurations[i].v.name = name

\* for config in configurations: config.name.lower() == data['name'].lower()
NameTaken(configurations, name) ==
    \E i \in 1..Len(configurations) : Lower(configurations[i].v.name) = Lower(name)

\* _handle_get_configurations
handle_get_configurations(p, h) ==
    /\ req[p].pc = "idle"
    /\ req' = [req EXCEPT ![p] =
                 Respond(Loaded(Request("app", "get_configurations", EmptyBody, h),
                                svc_get_configurations(service, Seen(blob))), 200, "ok")]
    /\ UNCHANGED <<adapter, env, backend, service, blob, now>>

\* _handle_create_configuration up to the call of save_configurations
handle_create_configuration(p, h, body) ==
    /\ req[p].pc = "idle"
    /\ Len(blob[CFG].elems) < MaxLen
    /\ LET data == AddIdCreatedAt(get_request_body(body), now)
           r == Parsed(Request("app", "create_configuration", data, h), body)
           configurations == svc_get_configurations(service, Seen(blob))
       IN req' = [req EXCEPT ![p] =
                    IF ~(RequiredConfigFields \subseteq DOMAIN data)
                    THEN [Respond(r, 400, "missing") EXCEPT !.named = {FirstMissing(data)}]
                    ELSE IF NameTaken(configurations, data.name)
                    THEN Respond(Loaded(r, configurations), 400, "duplicate")
                    ELSE [Loaded(r, configurations) EXCEPT !.pc = "save",
                                           !.list = Append(configurations, Dict(data))]]
    /\ UNCHANGED <<adapter, env, backend, service, blob, now>>

\* _handle_create_configuration from save_configurations to the response
finish_create_configuration(p) ==
    /\ req[p].pc = "save"
    /\ req[p].op = "create_configuration"
    /\ LET r == req[p]
           s == Stored(svc_save_configurations(service, blob, r.list))
       IN /\ blob' = s.blob
          /\ req' = [req EXCEPT ![p] =
                  Respond([r EXCEPT !.saved = TRUE, !.wrote = (@ \/ s.put), !.failed = (@ \/ WriteFails)],
                          IF s.ok THEN 201 ELSE 500,
                          IF s.ok THEN "ok" ELSE "save_failed")]
    /\ UNCHANGED <<adapter, env, backend, service, now>>

\* _handle_delete_configuration up to the call of save_configurations
handle_delete_configuration(p, h, config_id) ==
    /\ req[p].pc = "idle"
    /\ LET original == svc_get_configurations(service, Seen(blob))
           r == Loaded(Request("app", "delete_configuration", [id |-> config_id], h), original)
           configurations == FilterSeq(original, LAMBDA x : IdOf(x) # config_id)
       IN req' = [req EXCEPT ![p] =
                    IF Len(configurations) = Len(original)
                    THEN Respond(r, 404, "not_found")
                    ELSE [r EXCEPT !.pc = "save", !.list = configurations]]
    /\ UNCHANGED <<adapter, env, backend, service, blob, now>>

\* _handle_delete_configuration from save_configurations to the response
finish_delete_configuration(p) ==
    /\ req[p].pc = "save"
    /\ req[p].op = "delete_configuration"
    /\ LET r == req[p]
           s == Stored(svc_save_configurations(service, blob, r.list))
       IN /\ blob' = s.blob
          /\ req' = [req EXCEPT ![p] =
                  Respond([r EXCEPT !.saved = TRUE, !.wrote = (@ \/ s.put), !.failed = (@ \/ WriteFails)],
                          IF s.ok THEN 200 ELSE 500,
                          IF s.ok THEN "ok" ELSE "save_failed")]
    /\ UNCHANGED <<adapter, env, backend, service, now>>

----------------------------------------------------------------------------
(* app.py: quotations *)

\* What the handler does with the list get_quotations returned, up to its call of
\* save_quotations or its response.  The api/ handlers never get that far: they
\* pass the returned list to asyncio.run, which raises ValueError ("a coroutine was
\* expected"); create and update answer a ValueError with 400, the others with 500.
AfterLoad(r) ==
    IF r.via = "api"
    THEN Respond(r, IF r.op \in {"create_quotation", "update_quotation"} THEN 400 ELSE 500,
                 "coroutine")
    ELSE CASE r.op = "get_quotations" -> Respond(r, 200, "ok")
           [] r.op = "pdf" ->
                IF FirstWithId(r.list, r.data.id) = 0
                THEN Respond(r, 404, "not_found")
                ELSE Respond(r, 200, "ok")
           [] r.op = "create_quotation" ->
                [r EXCEPT !.pc = "save", !.list = Append(r.list, Dict(r.data))]
           [] r.op = "update_quotation" ->
                LET i == FirstWithId(r.list, r.data.id)
                IN IF i = 0 THEN Respond(r, 404, "not_found")
                   ELSE [r EXCEPT !.pc = "save", !.list[i] = Dict(r.data)]
           [] r.op = "delete_quotation" ->
                LET quotations == FilterSeq(r.list, LAMBDA x : IdOf(x) # r.data.id)
                IN IF Len(quotations) = Len(r.list) THEN Respond(r, 404, "not_found")
                   ELSE [r EXCEPT !.pc = "save", !.list = quotations]

\* storage_service.get_quotations() as the handler calls it: the blob is read and
\* filtered; when cleanup is needed the request stands before the re-save.
CallGetQuotations(p, r) ==
    LET g == svc_get_quotations(service, Seen(blob), now)
        r1 == [Loaded(r, g.valid_quotations) EXCEPT !.list = g.valid_quotations]
    IN req' = [req EXCEPT ![p] =
                 IF g.cleanup_needed THEN [r1 EXCEPT !.pc = "cleanup"] ELSE AfterLoad(r1)]

\* get_quotations: self.save_quotations(valid_quotations), then the return to the
\* handler.  The result of the save is ignored.
get_quotations_cleanup(p) ==
    /\ req[p].pc = "cleanup"
    /\ LET s == Stored(save_quotations(blob, req[p].list))
       IN /\ blob' = s.blob
          /\ req' = [req EXCEPT ![p] = AfterLoad([req[p] EXCEPT !.wrote = (@ \/ s.put), !.failed = (@ \/ WriteFails)])]
    /\ UNCHANGED <<adapter, env, backend, service, now>>

\* The handler's call of save_quotations and its response.
FinishQuotation(p, success) ==
    /\ req[p].pc = "save"
    /\ LET r == req[p]
           s == Stored(svc_save_quotations(service, blob, r.list))
       IN /\ blob' = s.blob
          /\ req' = [req EXCEPT ![p] =
                  Respond([r EXCEPT !.saved = TRUE, !.wrote = (@ \/ s.put), !.failed = (@ \/ WriteFails)],
                          IF s.ok THEN success ELSE 500,
                          IF s.ok THEN "ok" ELSE "save_failed")]
    /\ UNCHANGED <<adapter, env, backend, service, now>>

\* _handle_get_quotations
handle_get_quotations(p, h) ==
    /\ req[p].pc = "idle"
    /\ CallGetQuotations(p, Request("app", "get_quotations", EmptyBody, h))
    /\ UNCHANGED <<adapter, env, backend, service, blob, now>>

\* _handle_create_quotation up to the call of save_quotations
handle_create_quotation(p, h, body) ==
    /\ req[p].pc = "idle"
    /\ Len(blob[QUO].elems) < MaxLen
    /\ LET data == AddIdCreatedAt(get_request_body(body), now) @@ [date |-> Today(now)]
       IN CallGetQuotations(p, Parsed(Request("app", "create_quotation", data, h), body))
    /\ UNCHANGED <<adapter, env, backend, service, blob, now>>

\* _handle_create_quotation from save_quotations to the response
finish_create_quotation(p) ==
    /\ req[p].op = "create_quotation"
    /\ FinishQuotation(p, 201)

\* _handle_update_quotation up to the call of save_quotations
handle_update_quotation(p, h, quotation_id, body) ==
    /\ req[p].pc = "idle"
    /\ LET data == [id |-> quotation_id] @@ get_request_body(body)
       IN CallGetQuotations(p, Parsed(Request("app", "update_quotation", data, h), body))
    /\ UNCHANGED <<adapter, env, backend, service, blob, now>>

\* _handle_update_quotation from save_quotations to the response
finish_update_quotation(p) ==
    /\ req[p].op = "update_quotation"
    /\ FinishQuotation(p, 200)

\* _handle_delete_quotation up to the call of save_quotations
handle_delete_quotation(p, h, quotation_id) ==
    /\ req[p].pc = "idle"
    /\ CallGetQuotations(p, Request("app", "delete_quotation", [id |-> quotation_id], h))
    /\ UNCHANGED <<adapter, env, backend, service, blob, now>>

\* _handle_delete_quotation from save_quotations to the response
finish_delete_quotation(p) ==
    /\ req[p].op = "delete_quotation"
    /\ FinishQuotation(p, 200)

\* _handle_pdf_generation
handle_pdf_generation(p, h, quotation_id) ==
    /\ req[p].pc = "idle"
    /\ CallGetQuotations(p, Request("app", "pdf", [id |-> quotation_id], h))
    /\ UNCHANGED <<adapter, env, backend, service, blob, now>>

----------------------------------------------------------------------------
(* api/: one handler per endpoint.  They exist only beside the real storage   *)
(* service (no fallback is installed there), authenticate first, validate     *)
(* the payload with the pydantic model, and wrap every storage call in        *)
(* asyncio.run.                                                               *)

\* An api/ handler takes up a request.
ApiGuard(p) ==
    /\ req[p].pc = "idle"
    /\ service # "dummy"

\* A request that will be answered 401 is sent with an empty body, and with the
\* path parameter "zz": the handler answers before it reads either.
BodyRead(h, body) ==
    authenticate_request(env, Arriving(h, now), now) = None => body = EmptyBody

PathRead(h, id) ==
    authenticate_request(env, Arriving(h, now), now) = None => id = "zz"

\* `if not username: self._send_error(401, ...)`: the request is answered before
\* its body is read.
Unauth(r) == [r EXCEPT !.data = EmptyBody]

\* api/configurations/create.py do_POST
api_create_configuration(p, h, body) ==
    /\ ApiGuard(p)
    /\ BodyRead(h, body)
    /\ LET r0 == Parsed(Request("api", "create_configuration", body, h), body)
           data == AddIdCreatedAt(body, now)
           r == Parsed(Request("api", "create_configuration", data, h), body)
       IN req' = [req EXCEPT ![p] =
                    IF r.user = None THEN Respond(Unauth(r0), 401, "unauthenticated")
                    ELSE IF body = Malformed THEN Respond(r0, 400, "invalid_json")
                    ELSE IF ~ValidConfiguration(data)
                    THEN [Respond(r, 400, "validation") EXCEPT !.named = FieldsRequired(data)]
                    ELSE Respond(Loaded(r, get_configurations(Seen(blob))), 400, "coroutine")]
    /\ UNCHANGED <<adapter, env, backend, service, blob, now>>

\* api/configurations/[id].py do_DELETE
api_delete_configuration(p, h, config_id) ==
    /\ ApiGuard(p)
    /\ PathRead(h, config_id)
    /\ LET r == Request("api", "delete_configuration", [id |-> config_id], h)
       IN req' = [req EXCEPT ![p] =
                    IF r.user = None THEN Respond(Unauth(r), 401, "unauthenticated")
                    ELSE Respond(Loaded(r, get_configurations(Seen(blob))), 500, "coroutine")]
    /\ UNCHANGED <<adapter, env, backend, service, blob, now>>

\* api/quotations/index.py do_GET
api_get_quotations(p, h) ==
    /\ ApiGuard(p)
    /\ LET r == Request("api", "get_quotations", EmptyBody, h)
       IN IF r.user = None THEN req' = [req EXCEPT ![p] = Respond(Unauth(r), 401, "unauthenticated")]
          ELSE CallGetQuotations(p, r)
    /\ UNCHANGED <<adapter, env, backend, service, blob, now>>

\* api/quotations/create.py do_POST
api_create_quotation(p, h, body) ==
    /\ ApiGuard(p)
    /\ BodyRead(h, body)
    /\ LET r0 == Parsed(Request("api", "create_quotation", body, h), body)
           data == AddIdCreatedAt(body, now)
           r == Parsed(Request("api", "create_quotation", data, h), body)
       IN IF r.user = None THEN req' = [req EXCEPT ![p] = Respond(Unauth(r0), 401, "unauthenticated")]
          ELSE IF body = Malformed
          THEN req' = [req EXCEPT ![p] = Respond(r0, 400, "invalid_json")]
          ELSE IF ~ValidQuotation(data)
          THEN req' = [req EXCEPT ![p] = Respond(r, 400, "validation")]
          ELSE CallGetQuotations(p, [r EXCEPT !.data = QuotationDict(data, now)])
    /\ UNCHANGED <<adapter, env, backend, service, blob, now>>

\* api/quotations/[id].py do_PUT
api_update_quotation(p, h, quotation_id, body) ==
    /\ ApiGuard(p)
    /\ PathRead(h, quotation_id)
    /\ BodyRead(h, body)
    /\ LET r0 == Parsed(Request("api", "update_quotation", body, h), body)
           data == [id |-> quotation_id] @@ body
           r == Request("api", "update_quotation", data, h)
       IN IF r.user = None THEN req' = [req EXCEPT ![p] = Respond(Unauth(r0), 401, "unauthenticated")]
          ELSE IF body = Malformed
          THEN req' = [req EXCEPT ![p] = Respond(r0, 400, "invalid_json")]
          ELSE IF ~ValidQuotation(data)
          THEN req' = [req EXCEPT ![p] = Respond(r, 400, "validation")]
          ELSE CallGetQuotations(p, [r EXCEPT !.data = QuotationDict(data, now)])
    /\ UNCHANGED <<adapter, env, backend, service, blob, now>>

\* api/quotations/[id].py do_DELETE
api_delete_quotation(p, h, quotation_id) ==
    /\ ApiGuard(p)
    /\ PathRead(h, quotation_id)
    /\ LET r == Request("api", "delete_quotation", [id |-> quotation_id], h)
       IN IF r.user = None THEN req' = [req EXCEPT ![p] = Respond(Unauth(r), 401, "unauthenticated")]
          ELSE CallGetQuotations(p, r)
    /\ UNCHANGED <<adapter, env, backend, service, blob, now>>

\* api/quotations/pdf/[id].py do_GET
api_pdf(p, h, quotation_id) ==
    /\ ApiGuard(p)
    /\ PathRead(h, quotation_id)
    /\ LET r == Request("api", "pdf", [id |-> quotation_id], h)
       IN IF r.user = None THEN req' = [req EXCEPT ![p] = Respond(Unauth(r), 401, "unauthenticated")]
          ELSE CallGetQuotations(p, r)
    /\ UNCHANGED <<adapter, env, backend, service, blob, now>>

----------------------------------------------------------------------------
(* Health *)

\* has_blob_token = bool(os.environ.get('BLOB_READ_WRITE_TOKEN'))
HasBlobToken(e) == Truthy(e.BLOB_READ_WRITE_TOKEN)

\* app.py _handle_health
handle_health(p) ==
    /\ req[p].pc = "idle"
    /\ req' = [req EXCEPT ![p] =
                 Respond([Request("app", "health", EmptyBody, NoHeader)
                             EXCEPT !.has_blob_token = HasBlobToken(env)],
                         200, "healthy")]
    /\ UNCHANGED <<adapter, env, backend, service, blob, now>>

\* api/health.py do_GET
api_health(p) ==
    /\ ApiGuard(p)
    /\ req' = [req EXCEPT ![p] =
                 Respond([Request("api", "health", EmptyBody, NoHeader)
                             EXCEPT !.has_blob_token = HasBlobToken(env)],
                         200, "healthy")]
    /\ UNCHANGED <<adapter, env, backend, service, blob, now>>

----------------------------------------------------------------------------
(* Login *)

\* os.environ.get(name, default)
EnvGet(value, default) == IF value = None THEN default ELSE value

\* data.get(key, '')
GetOrEmpty(data, key) == IF key \in DOMAIN data THEN data[key] ELSE ""

\* app.py _handle_login: it compares with the environment itself and answers a
\* fixed string as the token.
handle_login(p, body) ==
    /\ req[p].pc = "idle"
    /\ LET data == get_request_body(body)
           r == Request("app", "login", data, NoHeader)
           username == GetOrEmpty(data, "username")
           password == GetOrEmpty(data, "password")
       IN req' = [req EXCEPT ![p] =
                    IF username = "" \/ password = ""
                    THEN Respond(r, 400, "required")
                    ELSE IF /\ username = EnvGet(env.AUTH_USERNAME, "arumugam")
                            /\ password = EnvGet(env.AUTH_PASSWORD, "pappu")
                    THEN Respond([r EXCEPT !.token = NotAJwt("dummy-jwt-token-for-testing")],
                                 200, "ok")
                    ELSE Respond(r, 401, "invalid_credentials")]
    /\ UNCHANGED <<adapter, env, backend, service, blob, now>>

\* AuthService.login: LoginResponse(success, token, error)
login(e, login_request, t) ==
    IF validate_user(e, login_request.username, login_request.password)
    THEN [success |-> TRUE, token |-> generate_token(login_request.username, t)]
    ELSE [success |-> FALSE, token |-> NoToken]

\* api/auth/login.py do_POST: LoginRequest(**data) raises when a field is missing,
\* which the generic except answers with 500.
api_login(p, body) ==
    /\ ApiGuard(p)
    /\ LET r == Request("api", "login", body, NoHeader)
       IN req' = [req EXCEPT ![p] =
                    IF body = Malformed THEN Respond(r, 400, "invalid_json")
                    ELSE IF ~({"username", "password"} \subseteq DOMAIN body)
                    THEN Respond(r, 500, "validation")
                    ELSE LET response == login(env, body, now)
                         IN IF response.success
                            THEN Respond([r EXCEPT !.token = response.token], 200, "ok")
                            ELSE Respond(r, 401, "invalid_credentials")]
    /\ UNCHANGED <<adapter, env, backend, service, blob, now>>

----------------------------------------------------------------------------
(* BlobStorageService called directly: put_blob, get_blob, delete_blob and   *)
(* save_*, in memory mode and against the remote backend                     *)

\* self.use_memory
use_memory == service = "memory"

\* requests.put / requests.delete against the backend as it is: the call raises,
\* or returns a response with the status code the backend answers.
requests_put ==
    CASE backend = "down" -> [raises |-> TRUE, status_code |-> 0]
      [] backend = "rejects" -> [raises |-> FALSE, status_code |-> 500]
      [] OTHER -> [raises |-> FALSE, status_code |-> 200]

requests_delete(present) ==
    CASE backend = "down" -> [raises |-> TRUE, status_code |-> 0]
      [] backend = "rejects" -> [raises |-> FALSE, status_code |-> 500]
      [] OTHER -> [raises |-> FALSE, status_code |-> IF present THEN 200 ELSE 404]

Returned(ok, put, b) == [ok |-> ok, put |-> put, raised |-> FALSE, blob |-> b]

\* A put_blob without its try: the exception of requests.put leaves it.
call_put_blob_uncaught(filename, data) ==
    IF use_memory THEN Returned(TRUE, TRUE, [blob EXCEPT ![filename] = data])
    ELSE LET response == requests_put
         IN IF response.raises
            THEN [ok |-> FALSE, put |-> FALSE, raised |-> TRUE, blob |-> blob]
            ELSE IF response.status_code \in {200, 201}
            THEN Returned(TRUE, TRUE, [blob EXCEPT ![filename] = data])
            ELSE Returned(FALSE, FALSE, blob)

\* put_blob: the memory branch, or requests.put inside try / except.
call_put_blob(filename, data) ==
    IF use_memory THEN Returned(TRUE, TRUE, put_blob(blob, filename, data).blob)
    ELSE LET response == requests_put
         IN IF response.raises THEN Returned(FALSE, FALSE, blob)
            ELSE IF response.status_code \in {200, 201}
            THEN Returned(TRUE, TRUE, put_blob(blob, filename, data).blob)
            ELSE Returned(FALSE, FALSE, blob)

\* A memory-mode delete that empties the whole store.
delete_blob_clear(b, filename) ==
    [ok |-> b[filename] # Absent, blob |-> [k \in Keys |-> Absent]]

\* delete_blob, memory branch: `if filename in self._memory_store: del ...`
delete_blob(b, filename) ==
    [ok |-> b[filename] # Absent, blob |-> [b EXCEPT ![filename] = Absent]]

\* delete_blob: the memory branch, or requests.delete inside try / except.
call_delete_blob(filename) ==
    IF use_memory
    THEN LET d == delete_blob(blob, filename) IN Returned(d.ok, d.ok, d.blob)
    ELSE LET response == requests_delete(blob[filename] # Absent)
         IN IF response.raises THEN Returned(FALSE, FALSE, blob)
            ELSE IF response.status_code = 200
            THEN Returned(TRUE, TRUE, [blob EXCEPT ![filename] = Absent])
            ELSE Returned(FALSE, FALSE, blob)

\* save_configurations / save_quotations: .dict() of every element, then put_blob,
\* all inside try / except Exception: return False.
call_save(filename, list) ==
    IF \E i \in 1..Len(list) : ~HasDictMethod(list[i])
    THEN Returned(FALSE, FALSE, blob)
    ELSE LET r == call_put_blob(filename, Array(MapSeq(list, LAMBDA x : x.v)))
         IN IF r.raised THEN Returned(FALSE, FALSE, blob) ELSE r

\* Contents put directly, and lists handed to save_*.
PutContents ==
    { Empty, NotArray, Array(<<>>),
      Array(<<Cfg("1", "Std", 10, 5, 15, StartNow - 5)>>) }

SaveLists ==
    { <<>>,
      <<Model(Cfg("1", "Std", 10, 5, 15, StartNow - 5))>>,
      <<Model(Cfg("1", "Std", 10, 5, 15, StartNow - 5)), Dict(CfgBody("Pro", 10, 5, 15))>> }

\* The outcome of a call as the adapter variable records it.
Called(op, filename, r, got, written) ==
    [op |-> op, filename |-> filename, ok |-> r.ok, put |-> r.put, raised |-> r.raised,
     got |-> got, list |-> <<>>, written |-> written]

\* The backend takes the write it is sent.
Takes == use_memory \/ backend = "up"

PutBlob(filename, data) ==
    /\ service # "dummy"
    /\ LET r == call_put_blob(filename, data)
       IN /\ blob' = r.blob
          /\ adapter' = Called("put_blob", filename, r, data,
                                IF Takes THEN [adapter.written EXCEPT ![filename] = data]
                                ELSE adapter.written)
    /\ UNCHANGED <<env, backend, service, now, req>>

GetBlob(filename) ==
    /\ service # "dummy"
    /\ adapter' = Called("get_blob", filename, Returned(TRUE, FALSE, blob),
                         get_blob(Seen(blob), filename), adapter.written)
    /\ UNCHANGED <<env, backend, service, blob, now, req>>

DeleteBlob(filename) ==
    /\ service # "dummy"
    /\ LET r == call_delete_blob(filename)
       IN /\ blob' = r.blob
          /\ adapter' = Called("delete_blob", filename, r, Absent,
                                IF Takes THEN [adapter.written EXCEPT ![filename] = Absent]
                                ELSE adapter.written)
    /\ UNCHANGED <<env, backend, service, now, req>>

SaveAll(filename, list) ==
    /\ service # "dummy"
    /\ LET r == call_save(filename, list)
       IN /\ blob' = r.blob
          /\ adapter' = [Called("save", filename, r, Absent,
                                 IF r.put THEN [adapter.written EXCEPT ![filename] = r.blob[filename]]
                                 ELSE adapter.written)
                            EXCEPT !.list = list]
    /\ UNCHANGED <<env, backend, service, now, req>>

----------------------------------------------------------------------------
(* The clock *)

Tick ==
    /\ now < MaxNow
    /\ now' = now + 1
    /\ UNCHANGED <<adapter, env, backend, service, blob, req>>

----------------------------------------------------------------------------
(* Specifications *)

\* Worker p takes up a request or carries the one it is handling a step further.
Handle(p, cfgBodies, cfgIds, quoBodies, updBodies, quoIds) ==
    \/ \E h \in AppHeaders : handle_get_configurations(p, h)
    \/ \E h \in AppHeaders, body \in cfgBodies : handle_create_configuration(p, h, body)
    \/ finish_create_configuration(p)
    \/ \E h \in AppHeaders, id \in cfgIds : handle_delete_configuration(p, h, id)
    \/ finish_delete_configuration(p)
    \/ \E h \in AppHeaders : handle_get_quotations(p, h)
    \/ \E h \in AppHeaders, body \in quoBodies : handle_create_quotation(p, h, body)
    \/ finish_create_quotation(p)
    \/ \E h \in AppHeaders, id \in quoIds, body \in updBodies : handle_update_quotation(p, h, id, body)
    \/ finish_update_quotation(p)
    \/ \E h \in AppHeaders, id \in quoIds : handle_delete_quotation(p, h, id)
    \/ finish_delete_quotation(p)
    \/ \E h \in AppHeaders, id \in quoIds : handle_pdf_generation(p, h, id)
    \/ get_quotations_cleanup(p)
    \/ \E h \in Headers, body \in cfgBodies : api_create_configuration(p, h, body)
    \/ \E h \in Headers, id \in cfgIds : api_delete_configuration(p, h, id)
    \/ \E h \in Headers : api_get_quotations(p, h)
    \/ \E h \in Headers, body \in quoBodies : api_create_quotation(p, h, body)
    \/ \E h \in Headers, id \in quoIds, body \in updBodies :
            api_update_quotation(p, h, id, body)
    \/ \E h \in Headers, id \in quoIds : api_delete_quotation(p, h, id)
    \/ \E h \in Headers, id \in quoIds : api_pdf(p, h, id)
    \/ \E body \in LoginBodies : handle_login(p, body)
    \/ \E body \in LoginBodies : api_login(p, body)
    \/ handle_health(p)
    \/ api_health(p)

\* Requests handled one at a time, by one worker.
Next ==
    \/ Tick
    \/ Handle("w1", ConfigBodies, ConfigIds, QuotationBodies, UpdateBodies, QuotationIds)

Spec == Init /\ [][Next]_vars

\* Two workers of the app.py server handle mutating requests at the same time;
\* each blob read and each blob write is one step.
ConcConfigBodies == {CfgBody("Std", 10, 5, 15)}
ConcQuotationBodies == {QuoBody(<<Item(2, 3, 6)>>, 6, 1, 0, 7)}
ConcUpdateBodies == {Dated(Quo("q2", StartNow - 2, <<Item(2, 3, 6)>>, 9))}
ConcConfigIds == {"1", "2"}
ConcQuotationIds == {"q1", "q2"}

Mutate(p) ==
    \/ \E body \in ConcConfigBodies : handle_create_configuration(p, NoHeader, body)
    \/ finish_create_configuration(p)
    \/ \E id \in ConcConfigIds : handle_delete_configuration(p, NoHeader, id)
    \/ finish_delete_configuration(p)
    \/ \E body \in ConcQuotationBodies : handle_create_quotation(p, NoHeader, body)
    \/ finish_create_quotation(p)
    \/ \E id \in ConcQuotationIds, body \in ConcUpdateBodies :
            handle_update_quotation(p, NoHeader, id, body)
    \/ finish_update_quotation(p)
    \/ \E id \in ConcQuotationIds : handle_delete_quotation(p, NoHeader, id)
    \/ finish_delete_quotation(p)
    \/ get_quotations_cleanup(p)

NextConc == \E p \in Workers : Mutate(p)

SpecConc == Init /\ [][NextConc]_vars

\* Two workers of the app.py server handle quotation requests at the same time,
\* read-only ones (list, PDF) among them.
ReadOrMutate(p) ==
    \/ handle_get_quotations(p, NoHeader)
    \/ \E id \in ConcQuotationIds : handle_pdf_generation(p, NoHeader, id)
    \/ \E body \in ConcQuotationBodies : handle_create_quotation(p, NoHeader, body)
    \/ finish_create_quotation(p)
    \/ \E id \in ConcQuotationIds, body \in ConcUpdateBodies :
            handle_update_quotation(p, NoHeader, id, body)
    \/ finish_update_quotation(p)
    \/ \E id \in ConcQuotationIds : handle_delete_quotation(p, NoHeader, id)
    \/ finish_delete_quotation(p)
    \/ get_quotations_cleanup(p)

NextReaders == \E p \in Workers : ReadOrMutate(p)

SpecReaders == Init /\ [][NextReaders]_vars

\* The remote backend stops answering, refuses writes, or works again.
BackendDown ==
    /\ service = "remote"
    /\ backend # "down"
    /\ backend' = "down"
    /\ UNCHANGED <<adapter, env, service, blob, now, req>>

BackendRejects ==
    /\ service = "remote"
    /\ backend # "rejects"
    /\ backend' = "rejects"
    /\ UNCHANGED <<adapter, env, service, blob, now, req>>

BackendUp ==
    /\ backend # "up"
    /\ backend' = "up"
    /\ UNCHANGED <<adapter, env, service, blob, now, req>>

\* Requests handled one at a time while the backend comes and goes.
NextFail ==
    \/ BackendDown
    \/ BackendRejects
    \/ BackendUp
    \/ Handle("w1", ConcConfigBodies, ConcConfigIds, ConcQuotationBodies, ConcUpdateBodies,
              ConcQuotationIds)

SpecFail == Init /\ [][NextFail]_vars

\* The adapter called directly, in memory mode or against a backend that comes
\* and goes.
NextAdapter ==
    \/ BackendDown
    \/ BackendRejects
    \/ BackendUp
    \/ \E filename \in Keys, data \in PutContents : PutBlob(filename, data)
    \/ \E filename \in Keys : GetBlob(filename)
    \/ \E filename \in Keys : DeleteBlob(filename)
    \/ \E filename \in Keys, list \in SaveLists : SaveAll(filename, list)

SpecAdapter == Init /\ [][NextAdapter]_vars

----------------------------------------------------------------------------
(* Properties *)

\* Worker p's request is answered in this step.
AnsweredNow(p) == req'[p].pc = "idle" /\ req'[p] # req[p]

\* The request reached the handler's own logic: it was authenticated and its body parsed.
Admitted(r) == r.note \notin {"unauthenticated", "invalid_json"}

\* The records a loadAll of configurations returns from store b.
LoadedConfigurations(b) ==
    LET l == svc_get_configurations(service, b) IN {l[i].v : i \in 1..Len(l)}

\* Some loaded configuration has this name, letter case ignored.
NameInCollection(b, name) ==
    \E c \in LoadedConfigurations(b) : Lower(c.name) = Lower(name)

\* C1: a create whose payload is a valid configuration with a name no loaded
\* configuration has is answered 201, and the created record, with its id and
\* createdAt, is in the result of the next loadAll.
C1_ValidCreateIsStored ==
    [][ \A p \in Workers :
            LET r == req'[p]
            IN ( /\ AnsweredNow(p)
                 /\ r.op = "create_configuration"
                 /\ Admitted(r)
                 /\ ValidConfiguration(r.data)
                 /\ ~NameInCollection(blob, r.data.name) )
               => ( /\ r.status = 201
                    /\ ConfigurationDict(r.data) \in LoadedConfigurations(blob') ) ]_vars

C4_LastSaveWins ==
    [][ \A p \in Workers :
            ( /\ req[p].pc = "save"
              /\ AnsweredNow(p)
              /\ req'[p].status \in {200, 201}
              /\ service # "dummy" )
            => blob'[KeyOfOp(req[p].op)] = Array(MapSeq(req[p].list, LAMBDA x : x.v)) ]_vars

\* Two deletes of different configurations were both answered 200, and the record
\* one of them deleted is stored: the other request had loaded the collection
\* before that delete was saved, and saved after it.
C4_LostUpdate ==
    \E p, q \in Workers :
        /\ p # q
        /\ req[p].op = "delete_configuration" /\ req[p].pc = "idle" /\ req[p].status = 200
        /\ req[q].op = "delete_configuration" /\ req[q].pc = "idle" /\ req[q].status = 200
        /\ req[p].data.id # req[q].data.id
        /\ \E c \in LoadedConfigurations(blob) : c.id = req[p].data.id

\* Some item of the payload has a negative rate, quantity or amount.
HasNegativeItem(d) ==
    /\ "items" \in DOMAIN d
    /\ \E i \in 1..Len(d.items) :
          d.items[i].rate < 0 \/ d.items[i].quantity < 0 \/ d.items[i].amount < 0

\* C5: a quotation create whose payload has an item with a negative rate, quantity
\* or amount is answered 400, and the request writes nothing to the blob store.
C5_NegativeItemRejected ==
    \A p \in Workers :
        ( /\ req[p].pc = "idle"
          /\ req[p].op = "create_quotation"
          /\ req[p].status # 0
          /\ Admitted(req[p])
          /\ HasNegativeItem(req[p].data) )
        => (req[p].status = 400 /\ ~req[p].wrote)

\* The elements of the stored quotations array.
StoredQuotations(b) ==
    IF b[QUO].kind = "array" THEN {b[QUO].elems[i] : i \in 1..Len(b[QUO].elems)} ELSE {}

\* The records a list of models holds.
Records(list) == {list[i].v : i \in 1..Len(list)}

\* C6: of the valid stored quotations, one created 31 days before the load is not
\* in loadAll's result nor in the blob the load leaves; one created 29 days before
\* it is in the result and still in the blob.
C6_Retention ==
    LET L == SvcLoadAllQuotations(service, blob, now)
    IN \A e \in StoredQuotations(blob) :
          (IsObject(e) /\ ValidQuotation(e)) =>
             /\ e.createdAt = now - (ThirtyDays + 1) =>
                   /\ QuotationDict(e, now) \notin Records(L.result)
                   /\ e \notin StoredQuotations(L.blob)
                   /\ QuotationDict(e, now) \notin StoredQuotations(L.blob)
             /\ e.createdAt = now - (ThirtyDays - 1) =>
                   /\ QuotationDict(e, now) \in Records(L.result)
                   /\ e \in StoredQuotations(L.blob)
                         \/ QuotationDict(e, now) \in StoredQuotations(L.blob)

\* A load stands between its read and its re-save: the blob holds a valid quotation
\* created 31 days ago, which the list to return lacks, and one created 29 days ago,
\* which the list has.
C6_Witness ==
    \E p \in Workers :
        /\ req[p].pc = "cleanup"
        /\ \E e \in StoredQuotations(blob) :
              /\ IsObject(e) /\ ValidQuotation(e)
              /\ e.createdAt = now - (ThirtyDays + 1)
              /\ QuotationDict(e, now) \notin Records(req[p].list)
        /\ \E e \in StoredQuotations(blob) :
              /\ IsObject(e) /\ ValidQuotation(e)
              /\ e.createdAt = now - (ThirtyDays - 1)
              /\ QuotationDict(e, now) \in Records(req[p].list)

\* C7: loadAll drops for age exactly the valid records created before now - 30 days;
\* a valid record created at now - 30 days or later is returned.
C7_DropsOnlyOlder ==
    LET L == SvcLoadAllQuotations(service, blob, now)
    IN \A e \in StoredQuotations(blob) :
          (IsObject(e) /\ ValidQuotation(e)) =>
             (QuotationDict(e, now) \in Records(L.result)
                <=> e.createdAt >= now - ThirtyDays)

\* No stored element is retained at one of the two times and dropped at the other.
NoCrossing(b, t1, t2) ==
    \A e \in StoredQuotations(b) : RetainedQuotation(e, t1) <=> RetainedQuotation(e, t2)

\* The number of elements of the stored quotations array.
StoredCount(b) == IF b[QUO].kind = "array" THEN Len(b[QUO].elems) ELSE 0

\* C8: loadAll writes exactly when it returns fewer records than the array holds;
\* when it writes, the blob then holds exactly the returned sequence, and a second
\* loadAll, at a time no record crosses the retention boundary, drops nothing,
\* writes nothing and returns the same sequence.
C8_CleanupWrite ==
    LET L1 == SvcLoadAllQuotations(service, blob, now)
    IN /\ L1.wrote <=> (Len(L1.result) # StoredCount(blob))
       /\ L1.wrote =>
            /\ L1.blob[QUO] = Array(MapSeq(L1.result, LAMBDA x : x.v))
            /\ \A t2 \in {now, now + 1} :
                  NoCrossing(L1.blob, now, t2) =>
                     LET L2 == SvcLoadAllQuotations(service, L1.blob, t2)
                     IN /\ ~L2.wrote
                        /\ Len(L2.result) = StoredCount(L1.blob)
                        /\ L2.result = L1.result

\* A list request re-saved the collection, and the blob it left needs no cleanup.
C8_Witness ==
    \E p \in Workers :
        /\ req[p].op = "get_quotations"
        /\ req[p].pc = "idle"
        /\ req[p].status = 200
        /\ req[p].wrote
        /\ StoredCount(blob) > 0
        /\ ~SvcLoadAllQuotations(service, blob, now).wrote

\* C9: two consecutive loadAll calls, nothing saved between them and no record
\* crossing the retention boundary, return the same sequence.
C9_LoadTwiceSame ==
    /\ svc_get_configurations(service, blob) = svc_get_configurations(service, blob)
    /\ \A t2 \in {now, now + 1} :
          NoCrossing(blob, now, t2) =>
             LET L1 == SvcLoadAllQuotations(service, blob, now)
                 L2 == SvcLoadAllQuotations(service, L1.blob, t2)
             IN L2.result = L1.result

\* C10: when loadAll drops nothing, saving its result and loading again (at a time
\* no record crosses the retention boundary) returns the same sequence of records.
C10_RoundTrip ==
    /\ LET l == svc_get_configurations(service, blob)
           s == svc_save_configurations(service, blob, l)
       IN (blob[CFG].kind = "array" => Len(l) = Len(blob[CFG].elems)) =>
             (s.ok /\ svc_get_configurations(service, s.blob) = l)
    /\ LET L1 == SvcLoadAllQuotations(service, blob, now)
           s == svc_save_quotations(service, L1.blob, L1.result)
       IN ~L1.wrote =>
             /\ s.ok
             /\ \A t2 \in {now, now + 1} :
                   NoCrossing(s.blob, now, t2) =>
                      SvcLoadAllQuotations(service, s.blob, t2).result = L1.result

\* A request saved the list it had loaded, and the next load of the non-empty
\* collection it left drops nothing.
C10_Witness ==
    \E p \in Workers :
        /\ req[p].pc = "idle"
        /\ req[p].saved
        /\ req[p].wrote
        /\ req[p].status = 200
        /\ StoredCount(blob) > 0
        /\ ~SvcLoadAllQuotations(service, blob, now).wrote

\* The request carried a payload the handler could use: it was authenticated, its
\* body parsed, and the record validation of the api/ handlers let it pass.
Accepted(r) == r.note \notin {"unauthenticated", "invalid_json", "validation"}

\* Some record of the list has this id.
HasId(list, id) == \E i \in 1..Len(list) : IdOf(list[i]) = id

\* C11: a quotation update for an id that no loaded quotation has is answered 404,
\* the update does not call saveAll, and the request leaves the quotations blob
\* as it was before the request.
C11_UpdateUnknownId ==
    [][ \A p \in Workers :
            ( /\ AnsweredNow(p)
              /\ req'[p].op = "update_quotation"
              /\ Accepted(req'[p])
              /\ ~HasId(req'[p].orig, req'[p].data.id) )
            => ( /\ req'[p].status = 404
                 /\ ~req'[p].saved
                 /\ ~req'[p].wrote
                 /\ blob'[QUO] = blob[QUO] ) ]_vars

\* Record a carries every field of record b with the same value.
Carries(a, b) == DOMAIN b \subseteq DOMAIN a /\ \A k \in DOMAIN b : a[k] = b[k]

\* C12: an update for id X that a loaded quotation has succeeds (200) and saves the
\* loaded sequence with the first record whose id is X replaced, at its position,
\* by the replacement with id X, every other record and the length unchanged.
C12_UpdateInPlace ==
    [][ \A p \in Workers :
            ( /\ AnsweredNow(p)
              /\ req'[p].op = "update_quotation"
              /\ Accepted(req'[p])
              /\ HasId(req'[p].orig, req'[p].data.id) )
            => LET old == req'[p].orig
                   X == req'[p].data.id
                   i == FirstWithId(old, X)
                   new == blob'[QUO].elems
               IN /\ req'[p].status = 200
                  /\ req'[p].saved
                  /\ blob'[QUO].kind = "array"
                  /\ Len(new) = Len(old)
                  /\ new[i].id = X
                  /\ Carries(new[i], req'[p].data)
                  /\ \A j \in 1..Len(old) : j # i => new[j] = old[j].v ]_vars

\* The collection a delete works on.
IsDelete(op) == op \in {"delete_configuration", "delete_quotation"}

\* C13: a delete for an id that no loaded record has is answered 404 without a
\* save; a delete for an id some loaded record has is answered 200 and saves the
\* loaded records whose id is different, in their order.
C13_Delete ==
    [][ \A p \in Workers :
            ( /\ AnsweredNow(p)
              /\ IsDelete(req'[p].op)
              /\ Accepted(req'[p]) )
            => LET old == req'[p].orig
                   X == req'[p].data.id
                   kept == SelectSeq(old, LAMBDA x : x.v.id # X)
               IN IF HasId(old, X)
                  THEN /\ req'[p].status = 200
                       /\ req'[p].saved
                       /\ service # "dummy" =>
                             blob'[KeyOfOp(req'[p].op)] = Array(MapSeq(kept, LAMBDA x : x.v))
                  ELSE /\ req'[p].status = 404
                       /\ ~req'[p].saved ]_vars

\* The operations of the endpoints the interface marks as bearer-authenticated.
BearerOps ==
    {"get_configurations", "create_configuration", "delete_configuration",
     "get_quotations", "create_quotation", "update_quotation", "delete_quotation", "pdf"}

\* C14: a request to a bearer-authenticated endpoint whose Authorization header is
\* missing, lacks the Bearer prefix or carries a token that fails verification is
\* answered 401, and neither reads nor writes the collection store.
C14_Unauthenticated401 ==
    \A p \in Workers :
        ( /\ req[p].pc = "idle"
          /\ req[p].op \in BearerOps
          /\ req[p].status # 0
          /\ req[p].user = None )
        => ( /\ req[p].status = 401
             /\ ~req[p].loaded
             /\ ~req[p].saved
             /\ ~req[p].wrote )

\* Header h carries, at time utc, a token signed with the secret, not expired, and
\* embedding the configured username.
Genuine(h, utc) ==
    /\ h.scheme = "Bearer"
    /\ "exp" \in DOMAIN h.token
    /\ h.token.key = SecretKey
    /\ h.token.exp > utc
    /\ env.AUTH_USERNAME # None
    /\ h.token.username = env.AUTH_USERNAME

\* C15: an api/ handler taking up a request obtains a username from verify exactly
\* when the token is validly signed, unexpired and embeds the configured
\* AUTH_USERNAME, and that username is the configured one; in every other case
\* (another username, AUTH_USERNAME unset, ...) it answers 401 without a load.
C15_VerifyConfiguredUserOnly ==
    [][ \A p \in Workers :
            ( /\ req[p].pc = "idle"
              /\ req'[p] # req[p]
              /\ req'[p].via = "api"
              /\ req'[p].op \in BearerOps )
            => IF Genuine(req'[p].hdr, utcnow(now))
               THEN /\ req'[p].user = env.AUTH_USERNAME
                    /\ req'[p].status # 401
               ELSE /\ req'[p].user = None
                    /\ req'[p].status = 401
                    /\ ~req'[p].loaded ]_vars

\* With AUTH_USERNAME set, a request bearing an unexpired token signed with the
\* secret for another username was answered 401.
C15_Witness ==
    \E p \in Workers :
        /\ req[p].via = "api"
        /\ req[p].op \in BearerOps
        /\ req[p].status = 401
        /\ env.AUTH_USERNAME # None
        /\ req[p].hdr.scheme = "Bearer"
        /\ "exp" \in DOMAIN req[p].hdr.token
        /\ req[p].hdr.token.key = SecretKey
        /\ req[p].hdr.token.exp > utcnow(now)
        /\ req[p].hdr.token.username \notin {None, env.AUTH_USERNAME}

\* C16: a login with a username and a password is answered 200 with a token exactly
\* when they equal the configured AUTH_USERNAME and AUTH_PASSWORD; any other
\* credentials are answered 401 "Invalid credentials" and obtain no token.
C16_LoginIffConfigured ==
    \A p \in Workers :
        ( /\ req[p].pc = "idle"
          /\ req[p].op = "login"
          /\ req[p].status # 0
          /\ {"username", "password"} \subseteq DOMAIN req[p].data )
        => IF /\ req[p].data.username = env.AUTH_USERNAME
              /\ req[p].data.password = env.AUTH_PASSWORD
           THEN req[p].status = 200 /\ req[p].token # NoToken
           ELSE /\ req[p].status = 401
                /\ req[p].note = "invalid_credentials"
                /\ req[p].token = NoToken

\* Hours after the issue of a token at which it is presented.
Delays == {0, 1, 23, 25, 48}

\* C17: the token a successful login returns is accepted by verify, yielding the
\* username that logged in, at every time less than 24 hours after its issue, and
\* rejected at every time more than 24 hours after it.
C17_TokenLifetime ==
    [][ \A p \in Workers :
            ( /\ AnsweredNow(p)
              /\ req'[p].op = "login"
              /\ req'[p].status = 200 )
            => \A d \in Delays :
                  LET u == verify_token(env, req'[p].token, utcnow(now) + d)
                  IN /\ d < token_expire_hours => u = req'[p].data.username
                     /\ d > token_expire_hours => u = None ]_vars

\* Blob contents that are no JSON array.
NoArrayContents == {Absent, Empty, Unparseable, NotArray}

\* The requests that only list a collection.
IsList(op) == op \in {"get_configurations", "get_quotations"}

\* C18: for either record type, loadAll of a blob that is absent, empty, not
\* parseable or not a JSON array returns the empty sequence (and returns: the
\* request that called it goes on with that list).
C18_NoArrayLoadsEmpty ==
    /\ \A c \in NoArrayContents :
          LET b == [blob EXCEPT ![CFG] = c, ![QUO] = c]
          IN /\ svc_get_configurations(service, b) = <<>>
             /\ SvcLoadAllQuotations(service, b, now).result = <<>>
    /\ \A p \in Workers :
          ( /\ req[p].pc = "idle"
            /\ IsList(req[p].op)
            /\ req[p].loaded
            /\ blob[KeyOfOp(req[p].op)].kind # "array" )
          => req[p].orig = <<>>

\* A list request was answered from a blob that is stored but holds no JSON array.
C18_Witness ==
    \E p \in Workers :
        /\ req[p].pc = "idle"
        /\ IsList(req[p].op)
        /\ req[p].loaded
        /\ req[p].orig = <<>>
        /\ service = "remote"
        /\ blob[KeyOfOp(req[p].op)].kind \in {"empty", "unparseable", "notarray"}

\* The elements of a stored configurations array that pass validation, and those
\* of a stored quotations array that pass it and are not aged out at clock t.
GoodConfiguration(e) ==
    /\ IsObject(e)
    /\ ConfigFields \subseteq DOMAIN e
    /\ \A f \in {"firstDiscount", "secondDiscount", "margin"} : e[f] >= 0 /\ e[f] <= 100

GoodQuotation(e, t) ==
    /\ IsObject(e)
    /\ ValidQuotation(e)
    /\ e.createdAt > t - ThirtyDays

\* result holds, in their order, one record for every element of elems that Good
\* accepts, and nothing else: the k-th accepted element is the k-th record.
ExactlyTheGood(result, elems, Good(_), AsRecord(_)) ==
    LET good == {i \in 1..Len(elems) : Good(elems[i])}
        rank(i) == Cardinality({j \in good : j <= i})
    IN /\ Len(result) = Cardinality(good)
       /\ \A i \in good : result[rank(i)] = Model(AsRecord(elems[i]))

\* C19: when the blob is a JSON array, loadAll returns exactly the elements that
\* pass validation (for quotations: and are not aged out), in their original
\* relative order, whatever invalid elements, objects or not, stand among them.
C19_InvalidElementsSkipped ==
    service # "dummy" =>
        /\ blob[CFG].kind = "array" =>
              ExactlyTheGood(svc_get_configurations(service, blob), blob[CFG].elems,
                             GoodConfiguration, ConfigurationDict)
        /\ blob[QUO].kind = "array" =>
              ExactlyTheGood(SvcLoadAllQuotations(service, blob, now).result,
                             blob[QUO].elems,
                             LAMBDA e : GoodQuotation(e, now),
                             LAMBDA e : QuotationDict(e, now))

\* A configurations list was answered from an array in which an invalid element
\* stands before a valid one: the list holds the valid record.
C19_Witness ==
    \E p \in Workers :
        /\ req[p].pc = "idle"
        /\ req[p].op = "get_configurations"
        /\ req[p].status = 200
        /\ blob[CFG].kind = "array"
        /\ \E i, j \in 1..Len(blob[CFG].elems) :
              /\ i < j
              /\ ~GoodConfiguration(blob[CFG].elems[i])
              /\ GoodConfiguration(blob[CFG].elems[j])
              /\ Model(ConfigurationDict(blob[CFG].elems[j])) \in
                    {req[p].orig[k] : k \in 1..Len(req[p].orig)}

\* C20: a request one of whose loads or saves found the backend unreachable, or
\* had its write rejected, is answered 500, and the step in which that call
\* failed leaves the persisted collections as they were.
C20_StorageErrorIs500 ==
    [][ \A p \in Workers :
            /\ (AnsweredNow(p) /\ req'[p].failed) => req'[p].status = 500
            /\ (req'[p].failed /\ ~req[p].failed) => blob' = blob ]_vars

\* The requests that create or replace a record from their body.
WritesBody(op) == op \in {"create_configuration", "create_quotation", "update_quotation"}

\* C21: a create or update request whose body is not valid JSON is answered 400,
\* does not call saveAll and writes nothing to the blob store.
C21_MalformedBody400 ==
    \A p \in Workers :
        ( /\ req[p].pc = "idle"
          /\ req[p].status # 0
          /\ WritesBody(req[p].op)
          /\ req[p].malformed )
        => ( /\ req[p].status = 400
             /\ ~req[p].saved
             /\ ~req[p].wrote )

\* A stored quotation with non-negative subtotal, gst, transportCharges and total,
\* non-negative rate, quantity and amount in every item, and a date.
SoundQuotation(e) ==
    /\ IsObject(e)
    /\ {"items", "subtotal", "gst", "transportCharges", "total", "date"} \subseteq DOMAIN e
    /\ e.subtotal >= 0 /\ e.gst >= 0 /\ e.transportCharges >= 0 /\ e.total >= 0
    /\ \A i \in 1..Len(e.items) :
          e.items[i].rate >= 0 /\ e.items[i].quantity >= 0 /\ e.items[i].amount >= 0
    /\ e.date # None

AllSound(b) == \A e \in StoredQuotations(b) : SoundQuotation(e)

\* C22: every write of the quotations blob leaves only quotations with non-negative
\* subtotal, gst, transportCharges, total, item rate, quantity and amount and with
\* a date, and no step takes a collection of such quotations to one holding
\* another kind; so a collection the requests built holds only such quotations.
C22_StoredQuotationsSound ==
    [][ (AllSound(blob) \/ blob'[QUO] # blob[QUO]) => AllSound(blob') ]_vars

\* A quotation create or update wrote the quotations blob, which holds a record.
C22_Witness ==
    \E p \in Workers :
        /\ req[p].pc = "idle"
        /\ req[p].op \in {"create_quotation", "update_quotation"}
        /\ req[p].wrote
        /\ StoredCount(blob) > 0

Percentages == {"firstDiscount", "secondDiscount", "margin"}

\* Some percentage of the payload is below 0 or above 100.
OutOfRange(d) ==
    /\ Percentages \subseteq DOMAIN d
    /\ \E f \in Percentages : d[f] < 0 \/ d[f] > 100

\* C23: a configuration create with a percentage below 0 or above 100 is answered
\* 400 and writes nothing to the blob store.
C23_PercentagesInRange ==
    \A p \in Workers :
        ( /\ req[p].pc = "idle"
          /\ req[p].op = "create_configuration"
          /\ req[p].status # 0
          /\ Admitted(req[p])
          /\ OutOfRange(req[p].data) )
        => ( /\ req[p].status = 400
             /\ ~req[p].wrote )

\* C24: a configuration create whose payload lacks one of name, firstDiscount,
\* secondDiscount, margin is answered 400, the answer names fields and only
\* fields the payload lacks, and the request neither loads nor saves.
C24_MissingFieldRejected ==
    \A p \in Workers :
        ( /\ req[p].pc = "idle"
          /\ req[p].op = "create_configuration"
          /\ req[p].status # 0
          /\ Admitted(req[p])
          /\ \E f \in {"name", "firstDiscount", "secondDiscount", "margin"} :
                f \notin DOMAIN req[p].data )
        => ( /\ req[p].status = 400
             /\ req[p].named # {}
             /\ \A f \in req[p].named :
                   /\ f \in {"name", "firstDiscount", "secondDiscount", "margin"}
                   /\ f \notin DOMAIN req[p].data
             /\ ~req[p].loaded
             /\ ~req[p].saved
             /\ ~req[p].wrote )

\* A create that carried a name but no margin was refused with an answer naming margin.
C24_Witness ==
    \E p \in Workers :
        /\ req[p].pc = "idle"
        /\ req[p].op = "create_configuration"
        /\ req[p].status = 400
        /\ "name" \in DOMAIN req[p].data
        /\ "margin" \notin DOMAIN req[p].data
        /\ req[p].named = {"margin"}

IsCreate(op) == op \in {"create_configuration", "create_quotation"}

\* The create should succeed: its payload is a valid record and, for a
\* configuration, no loaded configuration has its name.
ShouldCreate(r, b) ==
    /\ Accepted(r)
    /\ IF r.op = "create_configuration"
       THEN ValidConfiguration(r.data) /\ ~NameInCollection(b, r.data.name)
       ELSE ValidQuotation(r.data)

\* The elements of the stored array the operation works on.
StoredRecords(b, op) ==
    LET c == b[KeyOfOp(op)]
    IN IF c.kind = "array" THEN {c.elems[i] : i \in 1..Len(c.elems)} ELSE {}

\* C25: a create gives its record the id str(now) and the createdAt now exactly
\* where the payload carries none, keeping a supplied id or createdAt, and the
\* record is stored with that id and createdAt.
C25_IdAssignedIfAbsent ==
    [][ \A p \in Workers :
            /\ ( /\ req[p].pc = "idle"
                 /\ req'[p] # req[p]
                 /\ IsCreate(req'[p].op)
                 /\ Admitted(req'[p]) )
               => LET body == get_request_body(req'[p].body)
                      data == req'[p].data
                  IN /\ data.id = IF "id" \in DOMAIN body THEN body.id ELSE ToString(now)
                     /\ data.createdAt =
                           IF "createdAt" \in DOMAIN body THEN body.createdAt ELSE now
            /\ ( /\ AnsweredNow(p)
                 /\ IsCreate(req'[p].op)
                 /\ ShouldCreate(req'[p], blob) )
               => \E e \in StoredRecords(blob', req'[p].op) :
                     /\ IsObject(e)
                     /\ e.id = req'[p].data.id
                     /\ e.createdAt = req'[p].data.createdAt ]_vars

\* C26: in memory mode get returns, for a file never put or deleted since, absent,
\* and otherwise exactly the content of the most recent put; a put leaves the file
\* holding exactly its content and every other file as it was; a delete returns
\* true exactly when the file was present and removes that file only.
C26_MemoryAdapter ==
    [][ (use_memory /\ adapter' # adapter) =>
           LET k == adapter'.filename
           IN /\ adapter'.op = "get_blob" =>
                    /\ adapter'.got = adapter.written[k]
                    /\ blob' = blob
              /\ adapter'.op = "put_blob" =>
                    /\ adapter'.ok
                    /\ blob'[k] = adapter'.got
                    /\ \A j \in Keys \ {k} : blob'[j] = blob[j]
              /\ adapter'.op = "delete_blob" =>
                    /\ adapter'.ok <=> (adapter.written[k] # Absent)
                    /\ blob'[k] = Absent
                    /\ \A j \in Keys \ {k} : blob'[j] = blob[j] ]_vars

\* In memory mode a file was deleted while the other one holds content, and the
\* delete returned true.
C26_Witness ==
    /\ use_memory
    /\ adapter.op = "delete_blob"
    /\ adapter.ok
    /\ \E j \in Keys \ {adapter.filename} : blob[j] # Absent

\* C27: in remote mode, a put or a delete made while the backend is unreachable
\* or refuses it returns false, raises nothing and leaves the store as it was; a
\* save returns false and raises nothing when an element cannot be serialized or
\* when its put fails.
C27_FailureReturnsFalse ==
    [][ (adapter' # adapter) =>
           LET c == adapter'
               fails == service = "remote" /\ backend # "up"
           IN /\ ~c.raised
              /\ (c.op \in {"put_blob", "delete_blob"} /\ fails) =>
                    (~c.ok /\ blob' = blob)
              /\ (c.op = "save" /\ (fails \/ \E i \in 1..Len(c.list) : c.list[i].kind = "dict")) =>
                    (~c.ok /\ blob' = blob) ]_vars

\* In remote mode with the backend unreachable, a put, or a save of a list of
\* models, was made and returned false.
C27_Witness ==
    /\ service = "remote"
    /\ backend = "down"
    /\ adapter.op \in {"put_blob", "save"}
    /\ ~adapter.ok
    /\ \A i \in 1..Len(adapter.list) : adapter.list[i].kind = "model"

\* C28: the PDF request is answered from getById: 200 when some record of
\* loadAll's result has the id, 404 when none has; so a quotation the load drops
\* for its age or as invalid is answered 404 although the blob held it when the
\* request arrived.
C28_GetByIdOnLoadAll ==
    [][ \A p \in Workers :
            ( /\ AnsweredNow(p)
              /\ req'[p].op = "pdf"
              /\ Accepted(req'[p]) )
            => req'[p].status = IF HasId(req'[p].orig, req'[p].data.id) THEN 200 ELSE 404 ]_vars

\* C29: the has_blob_token flag of a health answer is false exactly when the
\* storage service of the process runs on its in-memory store, and true exactly
\* when it uses the remote blob backend.
C29_HealthShowsStorageMode ==
    \A p \in Workers :
        ( /\ req[p].pc = "idle"
          /\ req[p].op = "health"
          /\ req[p].status # 0 )
        => ( /\ req[p].status = 200
             /\ ~req[p].has_blob_token <=> service = "memory"
             /\ req[p].has_blob_token <=> service = "remote" )

\* The requests that change a collection.
IsMutation(op) ==
    op \in {"create_configuration", "delete_configuration", "create_quotation",
            "update_quotation", "delete_quotation"}

\* C31: when a create, update or delete is answered 200 or 201, the blob of its
\* collection holds, at that moment, exactly the list the request handed to its
\* save, whichever storage service the process runs with.
C31_SuccessMeansStored ==
    [][ \A p \in Workers :
            ( /\ AnsweredNow(p)
              /\ IsMutation(req'[p].op)
              /\ req'[p].status \in {200, 201} )
            => ( /\ req[p].pc = "save"
                 /\ blob'[KeyOfOp(req[p].op)] = Array(MapSeq(req[p].list, LAMBDA x : x.v)) ) ]_vars

\* C32: a create, update or delete whose read of the blob failed (the backend did
\* not answer, or the content did not parse) changes nothing in the blob store in
\* any of its later steps, so what was persisted before the read still is.
C32_NoSaveAfterFailedRead ==
    [][ \A p \in Workers :
            ( /\ req[p].pc # "idle"
              /\ IsMutation(req[p].op)
              /\ req[p].read_failed
              /\ req'[p] # req[p] )
            => blob' = blob ]_vars

\* A configuration create whose read failed went on to its save and was answered,
\* and the configurations blob holds records.
C32_Witness ==
    \E p \in Workers :
        /\ req[p].pc = "idle"
        /\ req[p].op = "create_configuration"
        /\ req[p].read_failed
        /\ req[p].saved
        /\ blob[CFG].kind = "array"
        /\ Len(blob[CFG].elems) > 0

\* The names of the stored configurations, one entry per record, letter case folded.
StoredNames(b) ==
    LET c == b[CFG]
        named == {i \in 1..Len(c.elems) : IsObject(c.elems[i]) /\ "name" \in DOMAIN c.elems[i]}
    IN [i \in named |-> Lower(c.elems[i].name)]

\* C33: under every interleaving of the load and save steps of concurrent
\* configuration creates and deletes, no two records of the configurations blob
\* have names that are equal when letter case is ignored.
C33_NamesUniqueUnderRaces ==
    LET names == StoredNames(blob)
    IN \A i, j \in DOMAIN names : names[i] = names[j] => i = j

\* A create went to its save with a list it had loaded before a concurrent delete
\* of one of that list's records was saved, and the delete was answered 200.
C33_Witness ==
    \E p, q \in Workers :
        /\ p # q
        /\ req[p].pc = "idle" /\ req[p].op = "create_configuration" /\ req[p].saved
        /\ req[q].pc = "idle" /\ req[q].op = "delete_configuration" /\ req[q].status = 200
        /\ HasId(req[p].orig, req[q].data.id)
        /\ ~HasId(svc_get_configurations(service, blob), req[q].data.id)

\* The requests that only read the quotations.
IsReadOnly(op) == op \in {"get_quotations", "pdf"}

\* The quotations blob of store b reflects the mutation request r reported: the
\* deleted id is in no record, the created or replacing record is stored.
Reflected(r, b) ==
    LET stored == {e \in StoredQuotations(b) : IsObject(e) /\ "id" \in DOMAIN e}
    IN IF r.op = "delete_quotation"
       THEN \A e \in stored : e.id # r.data.id
       ELSE \E e \in stored : e.id = r.data.id /\ Carries(e, r.data)

\* C34: no step of a read-only quotation request (list, PDF) takes the quotations
\* blob from reflecting a mutation that another request was answered with success
\* for to not reflecting it.
C34_ReaderLosesNoMutation ==
    [][ \A q \in Workers :
            ( /\ IsReadOnly(req[q].op)
              /\ req[q].pc # "idle"
              /\ req'[q] # req[q] )
            => \A p \in Workers \ {q} :
                  ( /\ req[p].pc = "idle"
                    /\ req[p].op \in {"create_quotation", "update_quotation", "delete_quotation"}
                    /\ req[p].status \in {200, 201}
                    /\ Reflected(req[p], blob) )
                  => Reflected(req[p], blob') ]_vars

\* C35: when a quotation create is answered 201, a loadAll made at once on the
\* store the request leaves returns a record with the id of the created
\* quotation, whatever createdAt the payload carried.
C35_CreatedIsLoaded ==
    [][ \A p \in Workers :
            ( /\ AnsweredNow(p)
              /\ req'[p].op = "create_quotation"
              /\ req'[p].status = 201 )
            => \E e \in Records(SvcLoadAllQuotations(service, blob', now).result) :
                  e.id = req'[p].data.id ]_vars

\* C36: a list of the configurations leaves the blob store as it was, also when
\* the load dropped elements; the configurations blob changes only in the save
\* of a create or delete that is answered with success, and that save leaves no
\* element the load drops.
C36_ConfigurationLoadNeverWrites ==
    [][ /\ \A p \in Workers :
              (AnsweredNow(p) /\ req'[p].op = "get_configurations") => blob' = blob
        /\ blob'[CFG] # blob[CFG] =>
              /\ \E p \in Workers :
                    /\ req[p].pc = "save"
                    /\ req[p].op \in {"create_configuration", "delete_configuration"}
                    /\ AnsweredNow(p)
                    /\ req'[p].status \in {200, 201}
              /\ \A i \in 1..Len(blob'[CFG].elems) : GoodConfiguration(blob'[CFG].elems[i]) ]_vars

\* A list request was answered with fewer configurations than the array holds, and
\* the array still holds the elements the load dropped.
C36_Witness ==
    \E p \in Workers :
        /\ req[p].pc = "idle"
        /\ req[p].op = "get_configurations"
        /\ req[p].status = 200
        /\ blob[CFG].kind = "array"
        /\ Len(req[p].orig) > 0
        /\ Len(req[p].orig) < Len(blob[CFG].elems)
        /\ \E i \in 1..Len(blob[CFG].elems) : ~GoodConfiguration(blob[CFG].elems[i])

====
